---- MODULE Spec2Model ----
(***************************************************************************)
(* Verification model of cbraservices (USGS-WiM/CBRA):                     *)
(*   - Case._get_status, the milestone-date and role fields of Case        *)
(*   - Case.request_date and its default                                   *)
(*   - IsStaff.has_permission                                              *)
(***************************************************************************)
EXTENDS Integers, FiniteSets, Sequences, TLC

\* ---------------------------------------------------------------- bounds
MaxDay == 2          \* calendar days are 1..MaxDay
MaxUsers == 3        \* usernames are 1..MaxUsers
MaxCases == 3        \* at most MaxCases rows are inserted in cbra_case

\* Python's None (a null column).  Dates and usernames are positive.
None == 0
Days == 1 .. MaxDay
Usernames == 1 .. MaxUsers
\* request.user: a username, or AnonymousUser (0), which never has a record
Identities == 0 .. MaxUsers

VARIABLES
    case,                  \* one Case instance: milestone dates and roles
    auth_user,             \* django.contrib.auth User table
    response,              \* outcome of the last IsStaff.has_permission call
    today,                 \* current calendar day
    request_date_default,  \* the value bound to Case.request_date's default
    cbra_case              \* rows of table cbra_case, in insertion order

vars == <<case, auth_user, response, today, request_date_default, cbra_case>>

\* Python truthiness of a nullable DateField value: None is falsy, every
\* datetime.date is truthy.
Truthy(v) == v # None

\* ------------------------------------------------------------ Case status
MilestoneFields == {"final_letter_date", "close_date", "analyst_signoff_date",
                    "qc_reviewer_signoff_date", "fws_reviewer_signoff_date"}

RoleFields == {"analyst", "qc_reviewer", "fws_reviewer"}

\* mutant: the qc and analyst branches tested in the wrong order
get_status_swapped(c) ==
    IF Truthy(c.close_date) /\ ~Truthy(c.final_letter_date)
        THEN "Closed with no Final Letter"
    ELSE IF Truthy(c.close_date) THEN "Final"
    ELSE IF Truthy(c.fws_reviewer_signoff_date) THEN "Awaiting Final Letter"
    ELSE IF Truthy(c.analyst_signoff_date) THEN "Awaiting QC"
    ELSE IF Truthy(c.qc_reviewer_signoff_date) THEN "Awaiting FWS Review"
    ELSE "Received"

\* mutant: the first branch forgets the final_letter_date test
get_status_nofinal(c) ==
    IF Truthy(c.close_date) THEN "Closed with no Final Letter"
    ELSE IF Truthy(c.fws_reviewer_signoff_date) THEN "Awaiting Final Letter"
    ELSE IF Truthy(c.qc_reviewer_signoff_date) THEN "Awaiting FWS Review"
    ELSE IF Truthy(c.analyst_signoff_date) THEN "Awaiting QC"
    ELSE "Received"

\* mutant: the first branch is missing, so every closed case is Final
get_status_allfinal(c) ==
    IF Truthy(c.close_date) THEN "Final"
    ELSE IF Truthy(c.fws_reviewer_signoff_date) THEN "Awaiting Final Letter"
    ELSE IF Truthy(c.qc_reviewer_signoff_date) THEN "Awaiting FWS Review"
    ELSE IF Truthy(c.analyst_signoff_date) THEN "Awaiting QC"
    ELSE "Received"

\* mutant: the final letter is tested before the close date
get_status_letterfirst(c) ==
    IF Truthy(c.close_date) /\ ~Truthy(c.final_letter_date)
        THEN "Closed with no Final Letter"
    ELSE IF Truthy(c.final_letter_date) THEN "Final"
    ELSE IF Truthy(c.fws_reviewer_signoff_date) THEN "Awaiting Final Letter"
    ELSE IF Truthy(c.qc_reviewer_signoff_date) THEN "Awaiting FWS Review"
    ELSE IF Truthy(c.analyst_signoff_date) THEN "Awaiting QC"
    ELSE "Received"

\* mutant: the trailing else is missing, the method falls off its end
get_status_noelse(c) ==
    IF Truthy(c.close_date) /\ ~Truthy(c.final_letter_date)
        THEN "Closed with no Final Letter"
    ELSE IF Truthy(c.close_date) THEN "Final"
    ELSE IF Truthy(c.fws_reviewer_signoff_date) THEN "Awaiting Final Letter"
    ELSE IF Truthy(c.qc_reviewer_signoff_date) THEN "Awaiting FWS Review"
    ELSE IF Truthy(c.analyst_signoff_date) THEN "Awaiting QC"
    ELSE "None"

\* Case._get_status
get_status(c) ==
    IF Truthy(c.close_date) /\ ~Truthy(c.final_letter_date)
        THEN "Closed with no Final Letter"
    ELSE IF Truthy(c.close_date) THEN "Final"
    ELSE IF Truthy(c.fws_reviewer_signoff_date) THEN "Awaiting Final Letter"
    ELSE IF Truthy(c.qc_reviewer_signoff_date) THEN "Awaiting FWS Review"
    ELSE IF Truthy(c.analyst_signoff_date) THEN "Awaiting QC"
    ELSE "Received"

\* Case.status = property(_get_status), read on the current instance
status == get_status(case)

\* A freshly constructed Case: every null=True column is None.
NewCase ==
    [final_letter_date |-> None, close_date |-> None,
     analyst |-> None, analyst_signoff_date |-> None,
     qc_reviewer |-> None, qc_reviewer_signoff_date |-> None,
     fws_reviewer |-> None, fws_reviewer_signoff_date |-> None]

\* An update writes any date, or null, to one milestone column.
SetMilestone(f, d) ==
    /\ case' = [case EXCEPT ![f] = d]
    /\ UNCHANGED <<auth_user, response, today, request_date_default, cbra_case>>

\* An update of a milestone column that is currently null, to a date.
SetUnsetMilestone(f, d) ==
    /\ case[f] = None
    /\ d # None
    /\ SetMilestone(f, d)

\* An update writes any user, or null, to one role column.  Nothing compares
\* the three columns with each other.
AssignRole(r, u) ==
    /\ case' = [case EXCEPT ![r] = u]
    /\ UNCHANGED <<auth_user, response, today, request_date_default, cbra_case>>

\* ---------------------------------------------------------- request_date
\* datetime.now().date(), evaluated when the class body of Case runs
LoadModels ==
    /\ request_date_default' = today
    /\ UNCHANGED <<case, auth_user, response, today, cbra_case>>

\* the calendar moves to the next day
Tick ==
    /\ today < MaxDay
    /\ today' = today + 1
    /\ UNCHANGED <<case, auth_user, response, request_date_default, cbra_case>>

\* A Case row is inserted.  rd = None: the caller gave no request_date and
\* the field default is used.  created_date's default is the callable
\* datetime.now, evaluated at insertion.
CreateCase(rd) ==
    /\ Len(cbra_case) < MaxCases
    /\ cbra_case' = Append(cbra_case,
          [request_date |-> IF rd = None THEN request_date_default ELSE rd,
           request_date_given |-> (rd # None),
           created_date |-> today])
    /\ UNCHANGED <<case, auth_user, response, today, request_date_default>>

\* ---------------------------------------------------------------- IsStaff
\* mutant: a missing record is treated as permitted
has_permission_open(user) ==
    LET found == {r \in auth_user : r.username = user}
    IN  IF found = {} THEN "permitted"
        ELSE IF (CHOOSE r \in found : TRUE).is_staff THEN "permitted" ELSE "denied"

\* User.objects.get(username=...): the matching row, or ObjectDoesNotExist
\* raised (username is unique, so at most one row matches)
objects_get(user) ==
    LET found == {r \in auth_user : r.username = user}
    IN  IF found = {}
        THEN [raises |-> "ObjectDoesNotExist", is_staff |-> FALSE]
        ELSE [raises |-> "", is_staff |-> (CHOOSE r \in found : TRUE).is_staff]

\* IsStaff.has_permission: the try body returns is_staff of the row, the
\* except clause returns False
has_permission(user) ==
    LET got == objects_get(user)
    IN  IF got.raises = "ObjectDoesNotExist" THEN "denied"
        ELSE IF got.is_staff THEN "permitted" ELSE "denied"

CreateUser(u, staff) ==
    /\ ~\E r \in auth_user : r.username = u
    /\ auth_user' = auth_user \cup {[username |-> u, is_staff |-> staff]}
    /\ UNCHANGED <<case, response, today, request_date_default, cbra_case>>

DeleteUser(u) ==
    /\ \E r \in auth_user : r.username = u
    /\ auth_user' = {r \in auth_user : r.username # u}
    /\ UNCHANGED <<case, response, today, request_date_default, cbra_case>>

SetStaff(u, staff) ==
    /\ \E r \in auth_user : r.username = u /\ r.is_staff # staff
    /\ auth_user' = {IF r.username = u THEN [r EXCEPT !.is_staff = staff] ELSE r
                     : r \in auth_user}
    /\ UNCHANGED <<case, response, today, request_date_default, cbra_case>>

\* one API request by identity `user`, checked by IsStaff
Request(user) ==
    /\ response' = [user |-> user, result |-> has_permission(user)]
    /\ UNCHANGED <<case, auth_user, today, request_date_default, cbra_case>>

\* ---------------------------------------------------------- specifications
Init ==
    /\ case = NewCase
    /\ auth_user = {}
    /\ response = [user |-> None, result |-> "none"]
    /\ today = 1
    /\ request_date_default = 1
    /\ cbra_case = <<>>

\* the workflow of one Case
Next ==
    \/ \E f \in MilestoneFields, d \in Days \cup {None} : SetMilestone(f, d)
    \/ \E r \in RoleFields, u \in Usernames \cup {None} : AssignRole(r, u)

Spec == Init /\ [][Next]_vars

\* updates that only ever fill in a missing milestone date
NextForward ==
    \E f \in MilestoneFields, d \in Days : SetUnsetMilestone(f, d)

SpecForward == Init /\ [][NextForward]_vars

\* user administration interleaved with API requests
NextAuth ==
    \/ \E u \in Usernames, s \in BOOLEAN : CreateUser(u, s)
    \/ \E u \in Usernames : DeleteUser(u)
    \/ \E u \in Usernames, s \in BOOLEAN : SetStaff(u, s)
    \/ \E u \in Identities : Request(u)

SpecAuth == Init /\ [][NextAuth]_vars

\* case creation over several days
NextCreate ==
    \/ Tick
    \/ LoadModels
    \/ \E rd \in Days \cup {None} : CreateCase(rd)

SpecCreate == Init /\ [][NextCreate]_vars

\* ------------------------------------------------------------------ claims
StatusLabels == {"Closed with no Final Letter", "Final", "Awaiting Final Letter",
                 "Awaiting FWS Review", "Awaiting QC", "Received"}

\* the order Received < Awaiting QC < Awaiting FWS Review <
\* Awaiting Final Letter < Closed with no Final Letter < Final
Rank(label) ==
    CASE label = "Received" -> 0
      [] label = "Awaiting QC" -> 1
      [] label = "Awaiting FWS Review" -> 2
      [] label = "Awaiting Final Letter" -> 3
      [] label = "Closed with no Final Letter" -> 4
      [] label = "Final" -> 5
      [] OTHER -> -1

\* C1: a Case with close_date set and final_letter_date unset has status
\* "Closed with no Final Letter", whatever its three signoff dates are.
C1_ClosedNoFinalLetter ==
    (case.close_date # None /\ case.final_letter_date = None)
        => status = "Closed with no Final Letter"

C1_Witness ==
    /\ case.close_date # None /\ case.final_letter_date = None
    /\ case.analyst_signoff_date # None
    /\ case.qc_reviewer_signoff_date # None
    /\ case.fws_reviewer_signoff_date # None
    /\ status = "Closed with no Final Letter"

\* C2: a Case with close_date set and final_letter_date set has status
\* "Final", whatever its three signoff dates are.
C2_ClosedWithFinalLetter ==
    (case.close_date # None /\ case.final_letter_date # None)
        => status = "Final"

C2_Witness ==
    /\ case.close_date # None /\ case.final_letter_date # None
    /\ case.analyst_signoff_date = None
    /\ case.qc_reviewer_signoff_date # None
    /\ status = "Final"

\* C3: a Case with close_date unset and fws_reviewer_signoff_date set has
\* status "Awaiting Final Letter", whatever qc_reviewer_signoff_date,
\* analyst_signoff_date and final_letter_date are.
C3_AwaitingFinalLetter ==
    (case.close_date = None /\ case.fws_reviewer_signoff_date # None)
        => status = "Awaiting Final Letter"

C3_Witness ==
    /\ case.close_date = None /\ case.fws_reviewer_signoff_date # None
    /\ case.final_letter_date # None
    /\ case.qc_reviewer_signoff_date = None
    /\ status = "Awaiting Final Letter"

\* C4: a Case with close_date and fws_reviewer_signoff_date unset has status
\* "Awaiting FWS Review" when qc_reviewer_signoff_date is set, otherwise
\* "Awaiting QC" when analyst_signoff_date is set, otherwise "Received";
\* final_letter_date plays no part.
C4_FurthestSignoff ==
    (case.close_date = None /\ case.fws_reviewer_signoff_date = None)
        => /\ case.qc_reviewer_signoff_date # None
                => status = "Awaiting FWS Review"
           /\ (case.qc_reviewer_signoff_date = None
               /\ case.analyst_signoff_date # None)
                => status = "Awaiting QC"
           /\ (case.qc_reviewer_signoff_date = None
               /\ case.analyst_signoff_date = None)
                => status = "Received"

C4_Witness ==
    /\ case.close_date = None /\ case.fws_reviewer_signoff_date = None
    /\ case.qc_reviewer_signoff_date # None
    /\ case.analyst_signoff_date # None
    /\ case.final_letter_date # None
    /\ status = "Awaiting FWS Review"

\* C5: in every state of a Case the status accessor yields one of the six
\* labels.
C5_StatusTotal == status \in StatusLabels

C5_Witness ==
    /\ \A f \in MilestoneFields : case[f] = None
    /\ \A r \in RoleFields : case[r] # None
    /\ status = "Received"

\* C6: every request is answered permitted or denied, and permitted exactly
\* when, at the time of the request, a user record with the request's
\* identity exists and is marked staff.
C6_StaffOnly ==
    [][response' # response =>
        /\ response'.result \in {"permitted", "denied"}
        /\ response'.result = "permitted"
             <=> \E r \in auth_user :
                    r.username = response'.user /\ r.is_staff]_vars

\* a request by a username with no record was denied, with other users on file
C6_Witness ==
    /\ response.result = "denied"
    /\ response.user \in Usernames
    /\ ~\E r \in auth_user : r.username = response.user
    /\ \E r \in auth_user : r.is_staff

\* C7: a Case created without an explicit request_date has the day of its
\* creation as request_date.
C7_RequestDateIsCreationDate ==
    \A i \in DOMAIN cbra_case :
        ~cbra_case[i].request_date_given
            => cbra_case[i].request_date = cbra_case[i].created_date

\* C8: whenever analyst, qc_reviewer and fws_reviewer are all set, they are
\* three different users.
C8_ThreeDifferentPersons ==
    (case.analyst # None /\ case.qc_reviewer # None /\ case.fws_reviewer # None)
        => /\ case.analyst # case.qc_reviewer
           /\ case.analyst # case.fws_reviewer
           /\ case.qc_reviewer # case.fws_reviewer

\* C9 as stated: a Case with close_date set has status "Final", with or
\* without a final_letter_date.
C9_ClosedIsFinal == case.close_date # None => status = "Final"

\* C9 amended: among Cases with close_date set, the status is "Final" exactly
\* when final_letter_date is set; with only close_date set (no signoff, no
\* final letter) the status is "Closed with no Final Letter".
C9_ClosedFinalOnlyWithLetter ==
    /\ case.close_date # None
         => (status = "Final" <=> case.final_letter_date # None)
    /\ (case.close_date # None
        /\ \A f \in MilestoneFields \ {"close_date"} : case[f] = None)
         => status = "Closed with no Final Letter"

C9_Witness ==
    /\ case.close_date # None
    /\ \A f \in MilestoneFields \ {"close_date"} : case[f] = None
    /\ status = "Closed with no Final Letter"

\* C10: when every update sets one previously unset milestone date, the
\* status never moves backward in the order of Rank, and a status of "Final"
\* stays "Final".
C10_ForwardProgression ==
    [][/\ Rank(get_status(case')) >= Rank(status)
       /\ status = "Final" => get_status(case') = "Final"]_vars

C10_Witness ==
    /\ \A f \in MilestoneFields : case[f] # None
    /\ status = "Final"

====
